---------------------------- MODULE Spec2Model ----------------------------
(***************************************************************************)
(* The recursive-descent parser of src/pascal/parsers.py as a state        *)
(* machine.  The Python call stack is the variable `stack`: one frame per  *)
(* active rule method, holding the method's name, the place it will resume *)
(* at, and its local variables under their source names.  One action is    *)
(* one straight-line segment of one method: it runs from the place the     *)
(* frame resumes at up to the next call of a rule method, the next return  *)
(* or the raise, and holds at most one call of eat.                        *)
(*                                                                         *)
(* The lexer is outside the parser.  Each get_next_token yields a token    *)
(* whose type is chosen freely, so every token stream is explored; the     *)
(* stream ends with one EOF token and holds at most MaxTokens(entry)       *)
(* tokens.  A token's payload is opaque to the parser: token number n of   *)
(* the stream carries the payload n, so that distinct tokens stay distinct *)
(* in the tree.                                                            *)
(***************************************************************************)
EXTENDS Naturals, Sequences, FiniteSets

(* ------------------------- token types ---------------------------------- *)
(* from pascal.constants, imported at parsers.py:2 *)
PROGRAM == "PROGRAM"
VAR == "VAR"
PROCEDURE == "PROCEDURE"
ID == "ID"
INTEGER == "INTEGER"
REAL == "REAL"
INTEGER_CONST == "INTEGER_CONST"
REAL_CONST == "REAL_CONST"
ASSIGN == "ASSIGN"
PLUS == "PLUS"
MINUS == "MINUS"
MUL == "MUL"
INTEGER_DIV == "INTEGER_DIV"
FLOAT_DIV == "FLOAT_DIV"
LPAREN == "LPAREN"
RPAREN == "RPAREN"
COMMA == "COMMA"
COLON == "COLON"
SEMI == "SEMI"
DOT == "DOT"
BEGIN == "BEGIN"
END == "END"
EOF == "EOF"

TokenTypes ==
  { PROGRAM, VAR, PROCEDURE, ID, INTEGER, REAL, INTEGER_CONST, REAL_CONST,
    ASSIGN, PLUS, MINUS, MUL, INTEGER_DIV, FLOAT_DIV, LPAREN, RPAREN,
    COMMA, COLON, SEMI, DOT, BEGIN, END, EOF }

Token(type, value) == [type |-> type, value |-> value]

(* ------------------------- bounds --------------------------------------- *)
(* the longest token stream (its EOF included) explored per entry rule *)
MaxParseTokens == 10
MaxDeclTokens == 8
MaxStmtTokens == 7
MaxExprTokens == 6

EntryRules ==
  { "parse", "declarations", "compound_statement", "statement_list", "expr" }

MaxTokens(rule) ==
  CASE rule = "parse" -> MaxParseTokens
    [] rule = "declarations" -> MaxDeclTokens
    [] rule \in {"compound_statement", "statement_list"} -> MaxStmtTokens
    [] OTHER -> MaxExprTokens

(* ------------------------- AST classes ---------------------------------- *)
None == [kind |-> "None"]

NoOp == [kind |-> "NoOp"]

Num(token) == [kind |-> "Num", token |-> token, value |-> token.value]

UnaryOp(op, expr) == [kind |-> "UnaryOp", token |-> op, op |-> op, expr |-> expr]

BinOp(left, op, right) ==
  [kind |-> "BinOp", left |-> left, token |-> op, op |-> op, right |-> right]

Var(token) == [kind |-> "Var", token |-> token, value |-> token.value]

Assign(left, op, right) ==
  [kind |-> "Assign", left |-> left, type |-> op, op |-> op, right |-> right]

Compound(children) == [kind |-> "Compound", children |-> children]

Type(token) == [kind |-> "Type", token |-> token, value |-> token.value]

VarDecl(var_node, type_node) ==
  [kind |-> "VarDecl", var_node |-> var_node, type_node |-> type_node]

ProcedureDecl(name, block) ==
  [kind |-> "ProcedureDecl", name |-> name, block |-> block]

Block(declarations, compound_statement) ==
  [kind |-> "Block", declarations |-> declarations,
   compound_statement |-> compound_statement]

Program(name, block) == [kind |-> "Program", name |-> name, block |-> block]

(* ------------------------- state ---------------------------------------- *)
VARIABLES
  current_token,  \* Parser.current_token, the lookahead
  cursor,         \* the lexer's cursor: the number of get_next_token calls
  pulled,         \* history: the tokens the lexer has yielded, in order
  stack,          \* the call stack of rule methods, innermost frame last
  retval,         \* the value the last completed call returned
  status,         \* "constructed", "running", "returned" or "error"
  entry,          \* the rule method the client called
  eat_log,        \* history: the last call of eat
  steps           \* history: the number of segments executed

vars ==
  << current_token, cursor, pulled, stack, retval, status, entry, eat_log, steps >>

NoToken == Token("NONE", 0)

(* a fresh frame of a rule method; locals start unset *)
NewFrame(fn) ==
  [fn |-> fn, pc |-> "start", token |-> NoToken, node |-> None,
   name |-> 0, nodes |-> << >>]

top == stack[Len(stack)]

At(fn, pc) ==
  /\ status = "running"
  /\ top.fn = fn
  /\ top.pc = pc

(* the stack with its innermost frame replaced by f *)
Replace(f) == [stack EXCEPT ![Len(stack)] = f]

(* the stack after the innermost frame, left as f, calls rule method fn *)
CallFrom(f, fn) == Append(Replace(f), NewFrame(fn))

(* the stack after the innermost frame returns *)
Pop == SubSeq(stack, 1, Len(stack) - 1)

(* control moves on without a token being consumed and without a raise *)
Continue(new_stack, new_retval) ==
  /\ stack' = new_stack
  /\ retval' = new_retval
  /\ status' = IF Len(new_stack) = 0 THEN "returned" ELSE "running"
  /\ steps' = steps + 1

NoEat == UNCHANGED << current_token, cursor, pulled, eat_log >>

(* the types the lexer may yield next: the stream ends with EOF, and what  *)
(* a call after EOF yields is undefined                                    *)
NextTypes ==
  IF \E i \in 1..Len(pulled) : pulled[i].type = EOF THEN TokenTypes
  ELSE IF cursor + 1 >= MaxTokens(entry) THEN {EOF}
  ELSE TokenTypes

(* self.current_token = self.lexer.get_next_token() *)
get_next_token ==
  \E type \in NextTypes :
    /\ current_token' = Token(type, cursor + 1)
    /\ cursor' = cursor + 1
    /\ pulled' = Append(pulled, Token(type, cursor + 1))

(* Parser.error *)
error ==
  /\ status' = "error"
  /\ steps' = steps + 1
  /\ UNCHANGED << stack, retval >>

(* what eat_log records of a call eat(token_type): the lookahead and the   *)
(* cursor before the call, and whether the call raised                     *)
EatLog(token_type, raised) ==
  [called |-> TRUE, token_type |-> token_type, token |-> current_token,
   cursor |-> cursor, raised |-> raised]

(* eat with the bug of advancing the lexer before it raises *)
eat_consuming(token_type, ok_stack, ok_retval) ==
  /\ get_next_token
  /\ IF current_token.type = token_type
     THEN /\ Continue(ok_stack, ok_retval)
          /\ eat_log' = EatLog(token_type, FALSE)
     ELSE /\ error
          /\ eat_log' = EatLog(token_type, TRUE)

(* Parser.eat, followed on success by the rest of the caller's segment *)
eat(token_type, ok_stack, ok_retval) ==
  IF current_token.type = token_type
  THEN /\ get_next_token
       /\ Continue(ok_stack, ok_retval)
       /\ eat_log' = EatLog(token_type, FALSE)
  ELSE /\ error
       /\ eat_log' = EatLog(token_type, TRUE)
       /\ UNCHANGED << current_token, cursor, pulled >>

(* ------------------------- construction --------------------------------- *)
(* Parser.__init__ has pulled the first token *)
Init ==
  /\ \E type \in TokenTypes :
       /\ current_token = Token(type, 1)
       /\ pulled = << Token(type, 1) >>
  /\ cursor = 1
  /\ stack = << >>
  /\ retval = None
  /\ status = "constructed"
  /\ entry = "none"
  /\ eat_log = [called |-> FALSE, token_type |-> "NONE", token |-> NoToken,
                cursor |-> 0, raised |-> FALSE]
  /\ steps = 0

(* the client calls one rule method of the parser *)
call_rule ==
  /\ status = "constructed"
  /\ \E rule \in EntryRules :
       /\ entry' = rule
       /\ stack' = << NewFrame(rule) >>
  /\ status' = "running"
  /\ steps' = steps + 1
  /\ UNCHANGED << retval >>
  /\ NoEat

(* ------------------------- parse ---------------------------------------- *)
parse_program ==
  /\ At("parse", "start")
  /\ Continue(CallFrom([top EXCEPT !.pc = "check"], "program"), retval)
  /\ NoEat
  /\ UNCHANGED entry

(* parse without the check for end of input *)
parse_check_unchecked ==
  /\ At("parse", "check")
  /\ Continue(Pop, retval)
  /\ NoEat
  /\ UNCHANGED entry

(* parse eating the end-of-input token instead of comparing with it *)
parse_check_eat_EOF ==
  /\ At("parse", "check")
  /\ eat(EOF, Pop, retval)
  /\ UNCHANGED entry

parse_check ==
  /\ At("parse", "check")
  /\ IF current_token.type # EOF
     THEN error
     ELSE Continue(Pop, retval)
  /\ NoEat
  /\ UNCHANGED entry

(* ------------------------- program -------------------------------------- *)
program_PROGRAM ==
  /\ At("program", "start")
  /\ eat(PROGRAM, CallFrom([top EXCEPT !.pc = "SEMI"], "variable"), retval)
  /\ UNCHANGED entry

program_SEMI ==
  /\ At("program", "SEMI")
  /\ eat(SEMI, CallFrom([top EXCEPT !.pc = "DOT", !.name = retval.value], "block"),
         retval)
  /\ UNCHANGED entry

program_DOT ==
  /\ At("program", "DOT")
  /\ eat(DOT, Pop, Program(top.name, retval))
  /\ UNCHANGED entry

(* ------------------------- block ---------------------------------------- *)
block_declarations ==
  /\ At("block", "start")
  /\ Continue(CallFrom([top EXCEPT !.pc = "compound"], "declarations"), retval)
  /\ NoEat
  /\ UNCHANGED entry

block_compound_statement ==
  /\ At("block", "compound")
  /\ Continue(CallFrom([top EXCEPT !.pc = "return", !.nodes = retval],
                       "compound_statement"), retval)
  /\ NoEat
  /\ UNCHANGED entry

block_return ==
  /\ At("block", "return")
  /\ Continue(Pop, Block(top.nodes, retval))
  /\ NoEat
  /\ UNCHANGED entry

(* ------------------------- declarations --------------------------------- *)
(* declarations = []; if self.current_token.type == VAR: self.eat(VAR) *)
declarations_VAR ==
  /\ At("declarations", "start")
  /\ IF current_token.type = VAR
     THEN eat(VAR, Replace([top EXCEPT !.pc = "var_loop"]), retval)
     ELSE /\ Continue(Replace([top EXCEPT !.pc = "proc_loop"]), retval)
          /\ NoEat
  /\ UNCHANGED entry

(* while self.current_token.type == ID: var_decl = self.variable_declaration() *)
declarations_var_loop ==
  /\ At("declarations", "var_loop")
  /\ IF current_token.type = ID
     THEN Continue(CallFrom([top EXCEPT !.pc = "var_SEMI"], "variable_declaration"),
                   retval)
     ELSE Continue(Replace([top EXCEPT !.pc = "proc_loop"]), retval)
  /\ NoEat
  /\ UNCHANGED entry

(* declarations.extend(var_decl); self.eat(SEMI) *)
declarations_var_SEMI ==
  /\ At("declarations", "var_SEMI")
  /\ eat(SEMI, Replace([top EXCEPT !.pc = "var_loop", !.nodes = @ \o retval]), retval)
  /\ UNCHANGED entry

(* while self.current_token.type == PROCEDURE: self.eat(PROCEDURE) *)
declarations_proc_loop ==
  /\ At("declarations", "proc_loop")
  /\ IF current_token.type = PROCEDURE
     THEN eat(PROCEDURE, Replace([top EXCEPT !.pc = "proc_ID"]), retval)
     ELSE /\ Continue(Pop, top.nodes)
          /\ NoEat
  /\ UNCHANGED entry

(* name = self.current_token.value; self.eat(ID) *)
declarations_proc_ID ==
  /\ At("declarations", "proc_ID")
  /\ eat(ID, Replace([top EXCEPT !.pc = "proc_SEMI", !.name = current_token.value]),
         retval)
  /\ UNCHANGED entry

(* self.eat(SEMI); ... self.block() *)
declarations_proc_SEMI ==
  /\ At("declarations", "proc_SEMI")
  /\ eat(SEMI, CallFrom([top EXCEPT !.pc = "proc_end"], "block"), retval)
  /\ UNCHANGED entry

(* declarations.append(ProcedureDecl(name, <block>)); self.eat(SEMI) *)
declarations_proc_end ==
  /\ At("declarations", "proc_end")
  /\ eat(SEMI,
         Replace([top EXCEPT !.pc = "proc_loop",
                             !.nodes = Append(@, ProcedureDecl(top.name, retval))]),
         retval)
  /\ UNCHANGED entry

(* ------------------------- variable_declaration ------------------------- *)
(* var_nodes = [Var(self.current_token)]; self.eat(ID) *)
variable_declaration_ID ==
  /\ At("variable_declaration", "start")
  /\ eat(ID, Replace([top EXCEPT !.pc = "comma_loop",
                                 !.nodes = << Var(current_token) >>]), retval)
  /\ UNCHANGED entry

(* while self.current_token.type == COMMA: self.eat(COMMA)                 *)
(* after the loop: self.eat(COLON); type_node = self.type_spec()           *)
variable_declaration_COMMA ==
  /\ At("variable_declaration", "comma_loop")
  /\ IF current_token.type = COMMA
     THEN eat(COMMA, Replace([top EXCEPT !.pc = "next_ID"]), retval)
     ELSE eat(COLON, CallFrom([top EXCEPT !.pc = "return"], "type_spec"), retval)
  /\ UNCHANGED entry

(* the next identifier replacing var_nodes instead of joining it *)
variable_declaration_next_ID_replacing ==
  /\ At("variable_declaration", "next_ID")
  /\ eat(ID, Replace([top EXCEPT !.pc = "comma_loop",
                                 !.nodes = << Var(current_token) >>]), retval)
  /\ UNCHANGED entry

(* var_nodes.append(Var(self.current_token)); self.eat(ID) *)
variable_declaration_next_ID ==
  /\ At("variable_declaration", "next_ID")
  /\ eat(ID, Replace([top EXCEPT !.pc = "comma_loop",
                                 !.nodes = Append(@, Var(current_token))]), retval)
  /\ UNCHANGED entry

(* [ VarDecl(var_node, type_node) for var_node in var_nodes ] *)
var_declarations(var_nodes, type_node) ==
  [i \in 1..Len(var_nodes) |-> VarDecl(var_nodes[i], type_node)]

variable_declaration_return ==
  /\ At("variable_declaration", "return")
  /\ Continue(Pop, var_declarations(top.nodes, retval))
  /\ NoEat
  /\ UNCHANGED entry

(* ------------------------- type_spec ------------------------------------ *)
type_spec ==
  /\ At("type_spec", "start")
  /\ IF current_token.type = INTEGER
     THEN eat(INTEGER, Pop, Type(current_token))
     ELSE eat(REAL, Pop, Type(current_token))
  /\ UNCHANGED entry

(* ------------------------- compound_statement --------------------------- *)
compound_statement_BEGIN ==
  /\ At("compound_statement", "start")
  /\ eat(BEGIN, CallFrom([top EXCEPT !.pc = "END"], "statement_list"), retval)
  /\ UNCHANGED entry

(* nodes = <statement_list>; self.eat(END); root.children.extend(nodes) *)
compound_statement_END ==
  /\ At("compound_statement", "END")
  /\ eat(END, Pop, Compound(retval))
  /\ UNCHANGED entry

(* ------------------------- statement_list ------------------------------- *)
(* results = [self.statement()]: the call *)
statement_list_statement ==
  /\ At("statement_list", "start")
  /\ Continue(CallFrom([top EXCEPT !.pc = "loop"], "statement"), retval)
  /\ NoEat
  /\ UNCHANGED entry

(* statement_list without the check that follows the loop *)
statement_list_loop_unchecked ==
  /\ At("statement_list", "loop")
  /\ LET results == Append(top.nodes, retval)
     IN  IF current_token.type = SEMI
         THEN eat(SEMI, CallFrom([top EXCEPT !.pc = "loop", !.nodes = results],
                                 "statement"), retval)
         ELSE /\ Continue(Pop, results)
              /\ NoEat
  /\ UNCHANGED entry

(* statement_list leaving empty statements out of results *)
statement_list_loop_skipping_empty ==
  /\ At("statement_list", "loop")
  /\ LET results == IF retval = NoOp THEN top.nodes ELSE Append(top.nodes, retval)
     IN  IF current_token.type = SEMI
         THEN eat(SEMI, CallFrom([top EXCEPT !.pc = "loop", !.nodes = results],
                                 "statement"), retval)
         ELSE /\ IF current_token.type = ID
                 THEN error
                 ELSE Continue(Pop, results)
              /\ NoEat
  /\ UNCHANGED entry

(* statement_list looping on a semicolon it does not consume *)
statement_list_loop_not_eating ==
  /\ At("statement_list", "loop")
  /\ LET results == Append(top.nodes, retval)
     IN  /\ IF current_token.type = SEMI
            THEN Continue(CallFrom([top EXCEPT !.pc = "loop", !.nodes = results],
                                   "statement"), retval)
            ELSE IF current_token.type = ID
            THEN error
            ELSE Continue(Pop, results)
         /\ NoEat
  /\ UNCHANGED entry

(* the statement just parsed joins results; then the while loop's test,    *)
(* its body up to the call of statement, or the check after the loop       *)
statement_list_loop ==
  /\ At("statement_list", "loop")
  /\ LET results == Append(top.nodes, retval)
     IN  IF current_token.type = SEMI
         THEN eat(SEMI, CallFrom([top EXCEPT !.pc = "loop", !.nodes = results],
                                 "statement"), retval)
         ELSE /\ IF current_token.type = ID
                 THEN error
                 ELSE Continue(Pop, results)
              /\ NoEat
  /\ UNCHANGED entry

(* ------------------------- statement ------------------------------------ *)
statement ==
  /\ At("statement", "start")
  /\ IF current_token.type = BEGIN
     THEN Continue(CallFrom([top EXCEPT !.pc = "return"], "compound_statement"),
                   retval)
     ELSE IF current_token.type = ID
     THEN Continue(CallFrom([top EXCEPT !.pc = "return"], "assignment_statement"),
                   retval)
     ELSE Continue(CallFrom([top EXCEPT !.pc = "return"], "empty"), retval)
  /\ NoEat
  /\ UNCHANGED entry

statement_return ==
  /\ At("statement", "return")
  /\ Continue(Pop, retval)
  /\ NoEat
  /\ UNCHANGED entry

(* ------------------------- assignment_statement ------------------------- *)
assignment_statement_variable ==
  /\ At("assignment_statement", "start")
  /\ Continue(CallFrom([top EXCEPT !.pc = "ASSIGN"], "variable"), retval)
  /\ NoEat
  /\ UNCHANGED entry

(* left = <variable>; token = self.current_token; self.eat(ASSIGN) *)
assignment_statement_ASSIGN ==
  /\ At("assignment_statement", "ASSIGN")
  /\ eat(ASSIGN, CallFrom([top EXCEPT !.pc = "return", !.node = retval,
                                      !.token = current_token], "expr"), retval)
  /\ UNCHANGED entry

assignment_statement_return ==
  /\ At("assignment_statement", "return")
  /\ Continue(Pop, Assign(top.node, top.token, retval))
  /\ NoEat
  /\ UNCHANGED entry

(* ------------------------- variable ------------------------------------- *)
variable ==
  /\ At("variable", "start")
  /\ eat(ID, Pop, Var(current_token))
  /\ UNCHANGED entry

(* ------------------------- empty ---------------------------------------- *)
empty ==
  /\ At("empty", "start")
  /\ Continue(Pop, NoOp)
  /\ NoEat
  /\ UNCHANGED entry

(* ------------------------- expr ----------------------------------------- *)
expr_operators == {PLUS, MINUS}

expr_term ==
  /\ At("expr", "start")
  /\ Continue(CallFrom([top EXCEPT !.pc = "node"], "term"), retval)
  /\ NoEat
  /\ UNCHANGED entry

(* the while loop of expr, entered with the local node set: its test, its  *)
(* body up to the call of term, or the return                              *)
expr_while(node) ==
  IF current_token.type \in expr_operators
  THEN LET token == current_token
           frame == [top EXCEPT !.pc = "binop", !.node = node, !.token = token]
       IN  IF token.type = PLUS
           THEN eat(PLUS, CallFrom(frame, "term"), retval)
           ELSE IF token.type = MINUS
           THEN eat(MINUS, CallFrom(frame, "term"), retval)
           ELSE /\ Continue(CallFrom(frame, "term"), retval)
                /\ NoEat
  ELSE /\ Continue(Pop, node)
       /\ NoEat

(* node = self.term() *)
expr_node ==
  /\ At("expr", "node")
  /\ expr_while(retval)
  /\ UNCHANGED entry

(* expr building its BinOp with the operands exchanged *)
expr_binop_exchanged ==
  /\ At("expr", "binop")
  /\ expr_while(BinOp(retval, top.token, top.node))
  /\ UNCHANGED entry

(* node = BinOp(left=node, op=token, right=<term>) *)
expr_binop ==
  /\ At("expr", "binop")
  /\ expr_while(BinOp(top.node, top.token, retval))
  /\ UNCHANGED entry

(* ------------------------- term ----------------------------------------- *)
term_operators == {MUL, INTEGER_DIV, FLOAT_DIV}

term_factor ==
  /\ At("term", "start")
  /\ Continue(CallFrom([top EXCEPT !.pc = "node"], "factor"), retval)
  /\ NoEat
  /\ UNCHANGED entry

(* term folding the additive operators too: one precedence level *)
term_while_one_level(node) ==
  IF current_token.type \in term_operators \cup expr_operators
  THEN LET token == current_token
           frame == [top EXCEPT !.pc = "binop", !.node = node, !.token = token]
       IN  eat(token.type, CallFrom(frame, "factor"), retval)
  ELSE /\ Continue(Pop, node)
       /\ NoEat

(* the while loop of term, entered with the local node set *)
term_while(node) ==
  IF current_token.type \in term_operators
  THEN LET token == current_token
           frame == [top EXCEPT !.pc = "binop", !.node = node, !.token = token]
       IN  IF token.type = MUL
           THEN eat(MUL, CallFrom(frame, "factor"), retval)
           ELSE IF token.type = INTEGER_DIV
           THEN eat(INTEGER_DIV, CallFrom(frame, "factor"), retval)
           ELSE IF token.type = FLOAT_DIV
           THEN eat(FLOAT_DIV, CallFrom(frame, "factor"), retval)
           ELSE /\ Continue(CallFrom(frame, "factor"), retval)
                /\ NoEat
  ELSE /\ Continue(Pop, node)
       /\ NoEat

(* node = self.factor() *)
term_node ==
  /\ At("term", "node")
  /\ term_while(retval)
  /\ UNCHANGED entry

(* node = BinOp(left=node, op=token, right=<factor>) *)
term_binop ==
  /\ At("term", "binop")
  /\ term_while(BinOp(top.node, top.token, retval))
  /\ UNCHANGED entry

(* ------------------------- factor --------------------------------------- *)
factor ==
  /\ At("factor", "start")
  /\ LET token == current_token
     IN  IF token.type = PLUS
         THEN eat(PLUS, CallFrom([top EXCEPT !.pc = "unary", !.token = token],
                                 "factor"), retval)
         ELSE IF token.type = MINUS
         THEN eat(MINUS, CallFrom([top EXCEPT !.pc = "unary", !.token = token],
                                  "factor"), retval)
         ELSE IF token.type = INTEGER_CONST
         THEN eat(INTEGER_CONST, Pop, Num(token))
         ELSE IF token.type = REAL_CONST
         THEN eat(REAL_CONST, Pop, Num(token))
         ELSE IF token.type = LPAREN
         THEN eat(LPAREN, CallFrom([top EXCEPT !.pc = "RPAREN"], "expr"), retval)
         ELSE /\ Continue(CallFrom([top EXCEPT !.pc = "return"], "variable"), retval)
              /\ NoEat
  /\ UNCHANGED entry

(* node = UnaryOp(token, <factor>); return node *)
factor_unary ==
  /\ At("factor", "unary")
  /\ Continue(Pop, UnaryOp(top.token, retval))
  /\ NoEat
  /\ UNCHANGED entry

(* node = <expr>; self.eat(RPAREN); return node *)
factor_RPAREN ==
  /\ At("factor", "RPAREN")
  /\ eat(RPAREN, Pop, retval)
  /\ UNCHANGED entry

(* node = <variable>; return node *)
factor_return ==
  /\ At("factor", "return")
  /\ Continue(Pop, retval)
  /\ NoEat
  /\ UNCHANGED entry

(* ------------------------- specification -------------------------------- *)
Next ==
  \/ call_rule
  \/ parse_program
  \/ parse_check
  \/ program_PROGRAM
  \/ program_SEMI
  \/ program_DOT
  \/ block_declarations
  \/ block_compound_statement
  \/ block_return
  \/ declarations_VAR
  \/ declarations_var_loop
  \/ declarations_var_SEMI
  \/ declarations_proc_loop
  \/ declarations_proc_ID
  \/ declarations_proc_SEMI
  \/ declarations_proc_end
  \/ variable_declaration_ID
  \/ variable_declaration_COMMA
  \/ variable_declaration_next_ID
  \/ variable_declaration_return
  \/ type_spec
  \/ compound_statement_BEGIN
  \/ compound_statement_END
  \/ statement_list_statement
  \/ statement_list_loop
  \/ statement
  \/ statement_return
  \/ assignment_statement_variable
  \/ assignment_statement_ASSIGN
  \/ assignment_statement_return
  \/ variable
  \/ empty
  \/ expr_term
  \/ expr_node
  \/ expr_binop
  \/ term_factor
  \/ term_node
  \/ term_binop
  \/ factor
  \/ factor_unary
  \/ factor_RPAREN
  \/ factor_return

Spec == Init /\ [][Next]_vars

(* a rule method, once called, runs to its end: Python executes the next   *)
(* segment whenever there is one                                           *)
FairSpec == Spec /\ WF_vars(Next)

(* ------------------------- properties ----------------------------------- *)
PulledTypes == [i \in 1..Len(pulled) |-> pulled[i].type]

AdditiveOperators == {PLUS, MINUS}

MultiplicativeOperators == {MUL, INTEGER_DIV, FLOAT_DIV}

BinaryOperators == AdditiveOperators \cup MultiplicativeOperators

Operands == {INTEGER_CONST, REAL_CONST, ID}

(* the tree of a single operand token *)
Leaf(token) == IF token.type = ID THEN Var(token) ELSE Num(token)

(* C1: eat(token_type) has exactly two outcomes.  If the lookahead's type  *)
(* is token_type, it does not raise, exactly one token is pulled and that  *)
(* token is the new lookahead.  Otherwise it raises, and the lookahead and *)
(* the lexer's cursor are what they were before the call.                  *)
C1_EatTwoOutcomes ==
  eat_log.called =>
    IF eat_log.token.type = eat_log.token_type
    THEN /\ ~eat_log.raised
         /\ cursor = eat_log.cursor + 1
         /\ Len(pulled) = cursor
         /\ current_token = pulled[cursor]
    ELSE /\ eat_log.raised
         /\ status = "error"
         /\ cursor = eat_log.cursor
         /\ Len(pulled) = cursor
         /\ current_token = eat_log.token

(* an eat that raised after earlier eats had advanced the lexer *)
C1_Witness ==
  /\ eat_log.called
  /\ eat_log.raised
  /\ status = "error"
  /\ cursor >= 3

(* C2: parse returns only a Program, and only with end of input as the     *)
(* lookahead, the final DOT being the last token consumed; when the        *)
(* program rule has completed and the lookahead is any other token, parse  *)
(* raises.                                                                 *)
C2_ParseRequiresEOF ==
  /\ []((entry = "parse" /\ status = "returned") =>
          /\ retval.kind = "Program"
          /\ current_token.type = EOF
          /\ pulled[cursor - 1].type = DOT)
  /\ [][(At("parse", "check") /\ current_token.type # EOF) =>
          status' = "error"]_vars

(* parse raised by its own check: a token follows the final DOT *)
C2_Witness ==
  /\ entry = "parse"
  /\ status = "error"
  /\ Len(stack) = 1
  /\ top.pc = "check"
  /\ retval.kind = "Program"
  /\ pulled[cursor - 1].type = DOT
  /\ current_token.type # EOF

(* C3: multiplicative operators bind tighter than additive ones.  A run    *)
(* of expr that returned on a stream starting 'a p b m' or 'a m b p' (a, b *)
(* operands, p additive, m multiplicative) has read past both operators;   *)
(* on 'a p b m c' it returned BinOp(a, p, BinOp(b, m, c)) and on           *)
(* 'a m b p c' it returned BinOp(BinOp(a, m, b), p, c).                    *)
C3_Precedence ==
  (/\ entry = "expr"
   /\ status = "returned"
   /\ Len(pulled) >= 4
   /\ pulled[1].type \in Operands
   /\ pulled[3].type \in Operands
   /\ \/ pulled[2].type \in AdditiveOperators /\ pulled[4].type \in MultiplicativeOperators
      \/ pulled[2].type \in MultiplicativeOperators /\ pulled[4].type \in AdditiveOperators)
  => /\ Len(pulled) >= 6
     /\ (/\ Len(pulled) = 6
         /\ pulled[5].type \in Operands
         /\ pulled[6].type \notin BinaryOperators)
        => IF pulled[2].type \in AdditiveOperators
           THEN retval = BinOp(Leaf(pulled[1]), pulled[2],
                               BinOp(Leaf(pulled[3]), pulled[4], Leaf(pulled[5])))
           ELSE retval = BinOp(BinOp(Leaf(pulled[1]), pulled[2], Leaf(pulled[3])),
                               pulled[4], Leaf(pulled[5]))

(* expr has returned on '2 + 3 * 4' *)
C3_Witness ==
  /\ entry = "expr"
  /\ status = "returned"
  /\ PulledTypes = << INTEGER_CONST, PLUS, INTEGER_CONST, MUL, INTEGER_CONST, EOF >>

(* the left-leaning tree of the first n operands of the stream *)
RECURSIVE LeftChain(_)
LeftChain(n) ==
  IF n = 1 THEN Leaf(pulled[1])
  ELSE BinOp(LeftChain(n - 1), pulled[2 * n - 2], Leaf(pulled[2 * n - 1]))

(* the stream is n operands joined by operators of the set ops, then one   *)
(* token that is no binary operator                                        *)
IsChain(n, ops) ==
  /\ Len(pulled) = 2 * n
  /\ \A i \in 1..n : pulled[2 * i - 1].type \in Operands
  /\ \A i \in 1..(n - 1) : pulled[2 * i].type \in ops
  /\ pulled[2 * n].type \notin BinaryOperators

(* C4: binary operators are left-associative at both levels.  On a chain   *)
(* of n >= 2 operands joined by operators of one level, expr returns the   *)
(* left-leaning tree: the root holds the last operator, its right child is *)
(* the last operand, its left child the tree of the first n-1 operands.    *)
C4_LeftAssociative ==
  (entry = "expr" /\ status = "returned") =>
    \A n \in 2..Len(pulled) :
      (IsChain(n, AdditiveOperators) \/ IsChain(n, MultiplicativeOperators))
        => /\ retval = LeftChain(n)
           /\ retval.op = pulled[2 * n - 2]
           /\ retval.right = Leaf(pulled[2 * n - 1])
           /\ retval.left = LeftChain(n - 1)

(* expr has returned on '8 - 3 - 2' *)
C4_Witness ==
  /\ entry = "expr"
  /\ status = "returned"
  /\ PulledTypes = << INTEGER_CONST, MINUS, INTEGER_CONST, MINUS, INTEGER_CONST, EOF >>

(* statement_list has just returned: to the client, or to its only caller  *)
(* compound_statement                                                      *)
StatementListReturned ==
  \/ entry = "statement_list" /\ status = "returned"
  \/ status = "running" /\ top.fn = "compound_statement" /\ top.pc = "END"

(* the tokens after which an identifier may stand inside a statement list *)
BeforeIdentifier ==
  {BEGIN, SEMI, ASSIGN, LPAREN} \cup BinaryOperators

(* C5: a missing semicolon between two statements is a syntax error.       *)
(* statement_list never returns with an identifier as the lookahead, and   *)
(* in a run of statement_list or compound_statement that returned, every   *)
(* identifier consumed stands at the start of a statement or after an      *)
(* operator, never directly after a completed operand or statement.        *)
C5_MissingSemicolon ==
  /\ StatementListReturned => current_token.type # ID
  /\ (entry \in {"statement_list", "compound_statement"} /\ status = "returned") =>
       \A i \in 2..(Len(pulled) - 1) :
         pulled[i].type = ID => pulled[i - 1].type \in BeforeIdentifier

(* the check after the loop of statement_list raised on 'BEGIN a := 1 b' *)
C5_Witness ==
  /\ entry = "compound_statement"
  /\ status = "error"
  /\ top.fn = "statement_list"
  /\ ~eat_log.raised
  /\ PulledTypes = << BEGIN, ID, ASSIGN, INTEGER_CONST, ID >>

(* C6: the lexer is never asked for a token after it has yielded end of    *)
(* input: only the last token pulled can be EOF, and every token pulled    *)
(* was pulled by exactly one call.                                         *)
C6_NoPullAfterEOF ==
  /\ Len(pulled) = cursor
  /\ \A i \in 1..(Len(pulled) - 1) : pulled[i].type # EOF
  /\ \A i \in 1..Len(pulled) : pulled[i].value = i

(* parse has compared the lookahead with EOF and returned *)
C6_Witness ==
  /\ entry = "parse"
  /\ status = "returned"
  /\ current_token.type = EOF

(* the identifier tokens of the comma-separated list that ends at index i *)
RECURSIVE IdentifierList(_)
IdentifierList(i) ==
  IF i >= 3 /\ pulled[i - 1].type = COMMA
  THEN Append(IdentifierList(i - 2), pulled[i])
  ELSE << pulled[i] >>

(* one VarDecl per identifier, in order, all with the Type of type_token *)
VarDeclsOf(identifiers, type_token) ==
  [j \in 1..Len(identifiers) |-> VarDecl(Var(identifiers[j]), Type(type_token))]

(* the type keyword that follows the identifier at index i *)
TypeTokenAfter(i) ==
  pulled[CHOOSE j \in (i + 1)..Len(pulled) :
           /\ pulled[j].type \in {INTEGER, REAL}
           /\ \A k \in (i + 1)..(j - 1) : pulled[k].type \notin {INTEGER, REAL}]

(* the identifier tokens consumed, in source order *)
IdentifiersConsumed ==
  SelectSeq(SubSeq(pulled, 1, Len(pulled) - 1), LAMBDA t : t.type = ID)

(* C7: a variable declaration of k >= 1 comma-separated identifiers with   *)
(* one type yields exactly k VarDecl nodes in the identifiers' order, each *)
(* with its own Var and all with the same Type; declarations holds the     *)
(* VarDecls of all its variable declarations in source order.              *)
C7_VarDecls ==
  /\ (status = "running" /\ top.fn = "declarations" /\ top.pc = "var_SEMI") =>
       LET identifiers == IdentifierList(cursor - 3)
       IN  /\ pulled[cursor - 2].type = COLON
           /\ retval = VarDeclsOf(identifiers, pulled[cursor - 1])
           /\ Len(retval) = Len(identifiers)
           /\ \A j, k \in 1..Len(retval) :
                /\ retval[j].type_node = retval[k].type_node
                /\ j # k => retval[j].var_node # retval[k].var_node
  /\ (/\ entry = "declarations"
      /\ status = "returned"
      /\ \A i \in 1..Len(pulled) : pulled[i].type # PROCEDURE) =>
       retval = [j \in 1..Len(IdentifiersConsumed) |->
                   VarDecl(Var(IdentifiersConsumed[j]),
                           Type(TypeTokenAfter(IdentifiersConsumed[j].value)))]

(* declarations has returned on 'VAR x, y : INTEGER;' *)
C7_Witness ==
  /\ entry = "declarations"
  /\ status = "returned"
  /\ Len(retval) = 2
  /\ PulledTypes = << VAR, ID, COMMA, ID, COLON, INTEGER, SEMI, EOF >>

(* compound_statement has just returned, having consumed its END *)
CompoundReturned ==
  /\ cursor >= 3
  /\ pulled[cursor - 1].type = END
  /\ \/ entry = "compound_statement" /\ status = "returned"
     \/ status = "running" /\ top.fn = "statement" /\ top.pc = "return"
     \/ status = "running" /\ top.fn = "block" /\ top.pc = "return"

(* the semicolons between the END at index i + 1 and its BEGIN that belong *)
(* to that compound itself: scanning left from index i, depth counts the   *)
(* nested compounds still open                                             *)
RECURSIVE SemicolonsAtLevel(_, _)
SemicolonsAtLevel(i, depth) ==
  IF i < 1 THEN 0
  ELSE IF pulled[i].type = END THEN SemicolonsAtLevel(i - 1, depth + 1)
  ELSE IF pulled[i].type = BEGIN
       THEN IF depth = 0 THEN 0 ELSE SemicolonsAtLevel(i - 1, depth - 1)
  ELSE IF pulled[i].type = SEMI /\ depth = 0
       THEN 1 + SemicolonsAtLevel(i - 1, depth)
  ELSE SemicolonsAtLevel(i - 1, depth)

(* C8: 'BEGIN END' parses to a Compound of exactly one NoOp; a Compound    *)
(* holds one statement more than the semicolons consumed at its nesting    *)
(* level; the empty statement consumes no token.                           *)
C8_CompoundStatements ==
  /\ [](/\ (/\ entry = "compound_statement"
            /\ status = "returned"
            /\ pulled[1].type = BEGIN
            /\ pulled[2].type = END) =>
              /\ retval = Compound(<< NoOp >>)
              /\ Len(pulled) = 3
        /\ CompoundReturned =>
             Len(retval.children) = SemicolonsAtLevel(cursor - 2, 0) + 1)
  /\ [][At("empty", "start") =>
          /\ retval' = NoOp
          /\ cursor' = cursor
          /\ pulled' = pulled
          /\ current_token' = current_token]_vars

(* a compound nested in a compound, the inner one with a semicolon *)
C8_Witness ==
  /\ entry = "compound_statement"
  /\ status = "returned"
  /\ PulledTypes = << BEGIN, BEGIN, SEMI, END, SEMI, END, EOF >>
  /\ retval = Compound(<< Compound(<< NoOp, NoOp >>), NoOp >>)

(* C9: a VAR keyword must be followed by at least one variable             *)
(* declaration: no rule returns on a stream in which a consumed VAR is     *)
(* directly followed by a token that is not an identifier.                 *)
C9_VarNeedsDeclaration ==
  status = "returned" =>
    \A i \in 1..(Len(pulled) - 1) : pulled[i].type = VAR => pulled[i + 1].type = ID

(* the segments a run executes per token pulled, at most; two more start  *)
(* the run                                                                *)
StepsPerToken == 4

Terminated == status \in {"returned", "error"}

(* C10: every run of a rule terminates: the number of segments executed is *)
(* bounded by the number of tokens pulled, which is bounded by the length  *)
(* of the stream, and the run ends returned or raised.                     *)
C10_Terminates ==
  /\ [](/\ steps <= StepsPerToken * cursor + 2
        /\ cursor <= MaxTokens(entry)
        /\ Len(stack) <= steps
        /\ status = "running" => ENABLED Next)
  /\ <>Terminated

(* parse has returned a Program after pulling the whole stream *)
C10_Witness ==
  /\ entry = "parse"
  /\ status = "returned"
  /\ Len(stack) = 0
  /\ cursor = MaxParseTokens

=============================================================================
